---- MODULE Spec2Model ----
(***************************************************************************)
(* Compost monitor firmware: the offline sketch (SPIFFS log with record    *)
(* ids, main_offline.cpp) and the hybrid sketch (SPIFFS log + Supabase,    *)
(* ESP32-COMPOSTA-ONLINE-v2.0.ino).                                        *)
(*                                                                         *)
(* /datalog.csv is a sequence of tokens: the decimal digits "0".."9", the  *)
(* field separator ",", the line end "\n" (println's "\r\n"), and one      *)
(* token for each fixed text (a header field, a timestamp, the formatted   *)
(* triple of sensor values).  The file system (existe, datalog) survives   *)
(* a power loss; every other variable is RAM.                              *)
(***************************************************************************)
EXTENDS Integers, Sequences, FiniteSets, TLC

\* ---- bounds of the model ------------------------------------------------
\* tokens in /datalog.csv (offline, hybrid), value of registroID before an
\* append, printlns cut by a power loss between two removes
MaxLen == 13
MaxLenHybrid == 12
MaxID == 3
MaxRotos == 1

\* ---- Arduino String / Stream helpers ------------------------------------
DigitChars == <<"0", "1", "2", "3", "4", "5", "6", "7", "8", "9">>

IsDigit(c) == \E i \in 1..10 : DigitChars[i] = c

DigitVal(c) == (CHOOSE i \in 1..10 : DigitChars[i] = c) - 1

\* String(n) for an unsigned long: its decimal digits
RECURSIVE StringOf(_)
StringOf(n) ==
    IF n < 10 THEN <<DigitChars[n + 1]>>
    ELSE StringOf(n \div 10) \o <<DigitChars[(n % 10) + 1]>>

\* String::toInt(): the value of the leading digits, 0 when there are none
RECURSIVE toIntAcc(_, _)
toIntAcc(s, acc) ==
    IF s = <<>> \/ ~IsDigit(Head(s)) THEN acc
    ELSE toIntAcc(Tail(s), acc * 10 + DigitVal(Head(s)))

toInt(s) == toIntAcc(s, 0)

\* String::indexOf(c): 0-based position of the first c, -1 when absent
indexOf(s, c) ==
    IF \E i \in 1..Len(s) : s[i] = c
    THEN (CHOOSE i \in 1..Len(s) : s[i] = c /\ \A j \in 1..(i - 1) : s[j] # c) - 1
    ELSE -1

\* String::substring(from, to): characters from..to-1 (0-based)
substring(s, from, to) == SubSeq(s, from + 1, to)

\* the successive results of file.readStringUntil('\n') while file.available()
RECURSIVE ReadLines(_)
ReadLines(f) ==
    IF f = <<>> THEN <<>>
    ELSE LET nl == indexOf(f, "\n")
         IN  IF nl = -1 THEN <<f>>
             ELSE <<SubSeq(f, 1, nl)>> \o ReadLines(SubSeq(f, nl + 2, Len(f)))

NumLines(f) == Len(ReadLines(f))

IsPrefix(s, t) == Len(s) <= Len(t) /\ SubSeq(t, 1, Len(s)) = s

\* ---- the two sketches ---------------------------------------------------
Variants == {"offline", "hybrid"}

\* header rows written by println in obtenerUltimoID / borrarRegistros
HeaderOffline == <<"id", ",", "cols", "\n">>
HeaderHybrid == <<"timestamp", ",", "cols", "\n">>

Header(v) == IF v = "offline" THEN HeaderOffline ELSE HeaderHybrid

\* temperatura, humedad, gas_ppm formatted with String(x, 2) and joined by ","
Placeholder == "0.00,0.00,0.00"
Muestras == {"m1"}

\* dataString + println in logDataToSPIFFS
FilaOffline(id, lec) == StringOf(id) \o <<",", lec, "\n">>

\* dataString + println in logData
FilaHybridSinSalto(ts, lec) == <<ts, ",", lec>>

FilaHybrid(ts, lec) == <<ts, ",", lec, "\n">>

\* getTimestamp(): uptime seconds, a formatted date, or "error_time"
getTimestamp(synced, localTimeOk) ==
    IF ~synced THEN "uptime"
    ELSE IF ~localTimeOk THEN "error_time"
    ELSE "fecha"

\* the while loop of obtenerUltimoID: the last string read from the file
UltimaLineaPrimera(f) == ReadLines(f)[1]

UltimaLinea(f) == ReadLines(f)[Len(ReadLines(f))]

\* the id that obtenerUltimoID leaves in registroID for a non-empty file
IdRecuperado(f, actual) ==
    LET firstComma == indexOf(UltimaLinea(f), ",")
    IN  IF firstComma > 0 THEN toInt(substring(UltimaLinea(f), 0, firstComma))
        ELSE actual

\* handleCsv: the status and the body of the response to GET /csv
handleCsv(ex, f) ==
    IF ex THEN [code |-> 200, body |-> f]
    ELSE [code |-> 404, body |-> <<"Archivo no encontrado">>]

\* ---- state ---------------------------------------------------------------
VARIABLES
    variant,          \* which sketch is flashed on the device
    pc,               \* position of the single execution context
    montado,          \* SPIFFS.begin succeeded in this boot
    existe,           \* /datalog.csv exists in the file system
    datalog,          \* content of /datalog.csv
    pendiente,        \* text handed to println and not yet in the file
    registroID,       \* offline: id of the last record
    lectura,          \* temperatura, humedad, gas_ppm of the last read
    timeIsSynced,     \* hybrid: WiFi connected at boot, NTP configured
    apActivo,         \* access point and web server on
    botonPresionado,  \* flag set by the button interrupt
    evento,           \* history: what the last step did
    limpio,           \* history: no failed append or cut println since the last remove
    roto,             \* history: number of printlns cut by a power loss since the last remove
    okAppends,        \* history: completed appends since the last remove
    idAlBoot,         \* history: registroID as left by the last setup
    preBorrado,       \* history: the file as it was when the running clear began
    raw,              \* analogRead(PIN_HUMEDAD) of the read under way
    humedad,          \* humedad as left by leerSensores
    medido,           \* leerSensores has run on raw
    posts,            \* hybrid: http.POST calls made in this pass of loop()
    wifiEnvio,        \* hybrid: WiFi.status() was WL_CONNECTED when enviarASupabase began
    ultimoPost,       \* hybrid: body of the POST of this pass of loop()
    pcBoton,          \* position of loop() within its step 1 (the button)
    flancos,          \* history: runs of the interrupt handler
    toggles,          \* history: calls of toggleAP
    atendido,         \* history: toggleAP was called since the handler last ran
    arrancado,        \* setup() has finished
    millisAhora,      \* value of millis()
    ultimaLecturaMillis,
    ultimoLogMillis,
    tLog,             \* history: millis() at the last call of logDataToSPIFFS, -1 if none
    tLogAnterior,     \* history: millis() at the call before it, or at the end of setup()
    currentState,     \* ESP32-CAM: state of the state machine
    stateStartTime,   \* ESP32-CAM: millis() when the state was entered
    led,              \* ESP32-CAM: level of PIN_LED_ROJO (LOW lights the LED)
    wifiAP,           \* ESP32-CAM: soft AP and web server on
    filasSD,          \* ESP32-CAM: data rows of /datalog.csv on the card
    peticion,         \* ESP32-CAM, history: request handled by the last pass of loop()
    llamadasLog,      \* history: calls of the log function since boot
    valorLog,         \* history: the sensor values of the last call of the log function
    ahora32,          \* millis() as an unsigned 32-bit value: <<high half, low half>>
    ultimo32,         \* the timer variable (ultimoLogMillis, stateStartTime, ...) likewise
    periodo,          \* the period that the timer is tested against
    realDesde,        \* history: ms really elapsed since the timer was last restarted
    total,            \* history: ms really elapsed since setup()
    disparo           \* history: the test of the last pass of loop() was true

vars == <<variant, pc, montado, existe, datalog, pendiente, registroID, lectura,
          timeIsSynced, apActivo, botonPresionado, evento, limpio,
          roto, okAppends, idAlBoot, preBorrado, raw, humedad, medido,
          posts, wifiEnvio, ultimoPost, pcBoton, flancos, toggles, atendido,
          arrancado, millisAhora, ultimaLecturaMillis, ultimoLogMillis, tLog,
          tLogAnterior, currentState, stateStartTime, led, wifiAP,
          filasSD, peticion, llamadasLog, valorLog, ahora32, ultimo32,
          periodo, realDesde, total, disparo>>

ram == <<montado, registroID, lectura, timeIsSynced, apActivo, botonPresionado>>
disco == <<existe, datalog>>
historia == <<limpio, roto, okAppends, idAlBoot, preBorrado>>

\* the variables of the sensor, button, timer and state-machine models
sensor == <<raw, humedad, medido>>
pulsador == <<pcBoton, flancos, toggles, atendido>>
cronos == <<ultimaLecturaMillis, ultimoLogMillis, tLog, tLogAnterior>>
registrado == <<llamadasLog, valorLog>>
reloj == <<arrancado, millisAhora, cronos, registrado>>
cam == <<currentState, stateStartTime, led, wifiAP, filasSD, peticion>>
vuelta == <<ahora32, ultimo32, periodo, realDesde, total, disparo>>
otros == <<sensor, pulsador, reloj, cam, vuelta>>

envio == <<posts, wifiEnvio, ultimoPost>>

\* everything but the sensor, button, timer and state-machine models
registro == <<variant, pc, ram, disco, pendiente, evento, historia, envio>>

SinBorrado == [existe |-> FALSE, datalog |-> <<>>]
SinPost == <<>>

\* float humedad = 0.0 (offline line 52), no read made yet
InitSensor ==
    /\ raw = 0
    /\ humedad = 0
    /\ medido = FALSE

\* loop() not yet entered, the button never pressed
InitPulsador ==
    /\ pcBoton = "check"
    /\ flancos = 0
    /\ toggles = 0
    /\ atendido = TRUE

\* unsigned long ultimaLecturaMillis = 0, ultimoLogMillis = 0 (offline lines
\* 57-58); the board has just been reset
InitReloj ==
    /\ arrancado = FALSE
    /\ millisAhora = 0
    /\ ultimaLecturaMillis = 0
    /\ ultimoLogMillis = 0
    /\ tLog = -1
    /\ tLogAnterior = 0
    /\ llamadasLog = 0
    /\ valorLog = Placeholder

\* State currentState = STATE_READING; unsigned long stateStartTime = 0
\* (ESP32-CAM lines 50-51)
InitCam ==
    /\ currentState = "STATE_READING"
    /\ stateStartTime = 0
    /\ led = "LOW"
    /\ wifiAP = FALSE
    /\ filasSD = 0
    /\ peticion = "-"

\* millis() is 0 at reset
InitVuelta ==
    /\ ahora32 = <<0, 0>>
    /\ ultimo32 = <<0, 0>>
    /\ periodo = 0
    /\ realDesde = 0
    /\ total = 0
    /\ disparo = FALSE

InitOtros ==
    /\ InitSensor
    /\ InitPulsador
    /\ InitReloj
    /\ InitCam
    /\ InitVuelta

\* a flashed device with an empty file system, powered off: the globals hold
\* their initialisers (lines 51-58 offline, 68-73 hybrid)
InitGlobales ==
    /\ pc = "off"
    /\ montado = FALSE
    /\ existe = FALSE
    /\ datalog = <<>>
    /\ pendiente = <<>>
    /\ registroID = 0
    /\ lectura = Placeholder
    /\ timeIsSynced = FALSE
    /\ apActivo = FALSE
    /\ botonPresionado = FALSE
    /\ evento = "init"
    /\ limpio = TRUE
    /\ roto = 0
    /\ okAppends = 0
    /\ idAlBoot = 0
    /\ preBorrado = SinBorrado
    /\ posts = 0
    /\ wifiEnvio = FALSE
    /\ ultimoPost = SinPost

InitRegistro ==
    /\ variant \in Variants
    /\ InitGlobales

Init ==
    /\ InitRegistro
    /\ InitOtros

\* ---- setup --------------------------------------------------------------
\* offline setup(): mount, obtenerUltimoID, attach the interrupt, start timers.
\* A failed mount calls ESP.restart(): the device boots again.
SetupOffline ==
    /\ variant = "offline"
    /\ pc = "off"
    /\ \E mountOk \in BOOLEAN, openOk \in BOOLEAN :
        IF ~mountOk
        THEN /\ evento' = "mount_fail"
             /\ UNCHANGED <<variant, otros, envio, pc, pendiente, ram, disco, historia>>
        ELSE /\ montado' = TRUE
             /\ IF ~existe \/ Len(datalog) = 0
                THEN /\ registroID' = 0
                     /\ existe' = (existe \/ openOk)
                     /\ datalog' = IF openOk THEN HeaderOffline ELSE datalog
                ELSE /\ registroID' = IdRecuperado(datalog, registroID)
                     /\ UNCHANGED disco
             /\ idAlBoot' = registroID'
             /\ pc' = "boton"
             /\ evento' = "boot"
             /\ preBorrado' = SinBorrado
             /\ UNCHANGED <<variant, otros, envio, pendiente, lectura, timeIsSynced,
                            apActivo, botonPresionado, limpio, roto, okAppends>>

\* hybrid setup(): a failed mount returns from setup and loop() runs all the
\* same; otherwise the file is created when it does not exist, then initWiFi.
SetupHybrid ==
    /\ variant = "hybrid"
    /\ pc = "off"
    /\ \E mountOk \in BOOLEAN, openOk \in BOOLEAN, wifiOk \in BOOLEAN :
        IF ~mountOk
        THEN /\ evento' = "mount_fail"
             /\ pc' = "boton"
             /\ UNCHANGED <<variant, otros, envio, pendiente, ram, disco, historia>>
        ELSE /\ montado' = TRUE
             /\ IF ~existe
                THEN /\ existe' = openOk
                     /\ datalog' = IF openOk THEN HeaderHybrid ELSE datalog
                ELSE UNCHANGED disco
             /\ timeIsSynced' = wifiOk
             /\ pc' = "boton"
             /\ evento' = "boot"
             /\ preBorrado' = SinBorrado
             /\ UNCHANGED <<variant, otros, envio, pendiente, registroID, lectura,
                            apActivo, botonPresionado, limpio, roto, okAppends,
                            idAlBoot>>

\* ---- button and access point ---------------------------------------------
\* onBotonPresionado: the FALLING-edge interrupt attached by setup
\* apActivo after the handler has run
ApTrasInterrupcionConmuta(ap) == ~ap

ApTrasInterrupcion(ap) == ap

OnBotonPresionado ==
    /\ pc # "off"
    /\ montado
    /\ botonPresionado' = TRUE
    /\ apActivo' = ApTrasInterrupcion(apActivo)
    /\ UNCHANGED <<variant, otros, envio, pc, montado, disco, pendiente, registroID, lectura,
                   timeIsSynced, evento, historia>>

\* loop() step 1: if (botonPresionado) { toggleAP(); botonPresionado = false; }
LoopBoton ==
    /\ pc = "boton"
    /\ IF botonPresionado
       THEN /\ apActivo' = ~apActivo
            /\ botonPresionado' = FALSE
            /\ evento' = "-"
       ELSE /\ UNCHANGED <<apActivo, botonPresionado>>
            /\ evento' = "-"
    /\ pc' = "http"
    /\ posts' = 0
    /\ wifiEnvio' = FALSE
    /\ ultimoPost' = SinPost
    /\ UNCHANGED <<variant, otros, montado, disco, pendiente, registroID, lectura,
                   timeIsSynced, historia>>

\* ---- web server ---------------------------------------------------------
Requests == {"/", "/data.json", "/csv", "/delete"}

\* loop() step 2: if (apActivo) server.handleClient(); one request at most.
\* GET /delete runs borrarRegistros, whose first statements are
\* SPIFFS.remove and (offline) registroID = 0.
LoopHttp ==
    /\ pc = "http"
    /\ \/ /\ ~apActivo
          /\ pc' = "leer"
          /\ evento' = "-"
          /\ UNCHANGED <<disco, registroID, historia>>
       \/ /\ apActivo
          /\ pc' = "leer"
          /\ evento' = "-"
          /\ UNCHANGED <<disco, registroID, historia>>
       \/ /\ apActivo
          /\ \E req \in {"/", "/data.json"} :
                evento' = "-"
          /\ pc' = "leer"
          /\ UNCHANGED <<disco, registroID, historia>>
       \/ /\ apActivo
          /\ evento' = IF handleCsv(existe, datalog).code = 200 THEN "csv_200"
                       ELSE "csv_404"
          /\ pc' = "leer"
          /\ UNCHANGED <<disco, registroID, historia>>
       \/ /\ apActivo
          /\ preBorrado' = [existe |-> existe, datalog |-> datalog]
          /\ existe' = FALSE
          /\ datalog' = <<>>
          /\ registroID' = IF variant = "offline" THEN 0 ELSE registroID
          /\ limpio' = TRUE
          /\ roto' = 0
          /\ okAppends' = 0
          /\ pc' = "borrar_open"
          /\ evento' = "delete_remove"
          /\ UNCHANGED <<idAlBoot>>
    /\ UNCHANGED <<variant, otros, envio, montado, pendiente, lectura, timeIsSynced, apActivo,
                   botonPresionado>>

\* borrarRegistros: SPIFFS.open("/datalog.csv", FILE_WRITE); a failed open
\* skips the header and handleDelete sends its confirmation all the same
BorrarOpen ==
    /\ pc = "borrar_open"
    /\ \E openOk \in BOOLEAN :
        IF openOk
        THEN /\ existe' = TRUE
             /\ datalog' = <<>>
             /\ pendiente' = Header(variant)
             /\ pc' = "borrar_println"
             /\ evento' = "delete_open"
             /\ UNCHANGED <<preBorrado>>
        ELSE /\ preBorrado' = SinBorrado
             /\ pc' = "leer"
             /\ evento' = "delete_fin"
             /\ UNCHANGED <<disco, pendiente>>
    /\ UNCHANGED <<variant, otros, envio, ram, limpio, roto, okAppends, idAlBoot>>

\* borrarRegistros: newFile.println(header); newFile.close(); then
\* handleDelete sends "Registros borrados"
BorrarPrintln ==
    /\ pc = "borrar_println"
    /\ datalog' = datalog \o pendiente
    /\ pendiente' = <<>>
    /\ preBorrado' = SinBorrado
    /\ pc' = "leer"
    /\ evento' = "delete_fin"
    /\ UNCHANGED <<variant, otros, envio, ram, existe, limpio, roto, okAppends, idAlBoot>>

\* ---- sensors ------------------------------------------------------------
\* loop() step 3: when the read timer is due, leerSensores()
LoopLeer ==
    /\ pc = "leer"
    /\ \E due \in BOOLEAN :
        IF due
        THEN /\ lectura' \in Muestras
             /\ evento' = "-"
        ELSE /\ UNCHANGED lectura
             /\ evento' = "-"
    /\ pc' = "log"
    /\ UNCHANGED <<variant, otros, envio, montado, disco, pendiente, registroID, timeIsSynced,
                   apActivo, botonPresionado, historia>>

\* ---- log tick -----------------------------------------------------------
\* SPIFFS.open(path, FILE_APPEND) keeps the content and positions at its end
AlAbrirWrite(f) == <<>>

AlAbrirAppend(f) == f

\* offline loop() step 4: when the log timer is due, logDataToSPIFFS():
\* registroID++, then open for append; a failed open only prints an error
LoopLogOffline ==
    /\ variant = "offline"
    /\ pc = "log"
    /\ \E due \in BOOLEAN, openOk \in BOOLEAN :
        IF ~due
        THEN /\ pc' = "boton"
             /\ evento' = "-"
             /\ UNCHANGED <<disco, pendiente, registroID, limpio>>
        ELSE /\ Len(datalog) + Len(FilaOffline(registroID + 1, lectura)) <= MaxLen
             /\ registroID < MaxID
             /\ registroID' = registroID + 1
             /\ IF openOk
                THEN /\ existe' = TRUE
                     /\ datalog' = AlAbrirAppend(datalog)
                     /\ pendiente' = FilaOffline(registroID', lectura)
                     /\ pc' = "log_println"
                     /\ evento' = "append_open"
                     /\ UNCHANGED limpio
                ELSE /\ limpio' = FALSE
                     /\ pc' = "boton"
                     /\ evento' = "append_fail"
                     /\ UNCHANGED <<disco, pendiente>>
    /\ UNCHANGED <<variant, otros, envio, montado, lectura, timeIsSynced, apActivo,
                   botonPresionado, roto, okAppends, idAlBoot,
                   preBorrado>>

\* hybrid loop(): when the log timer is due, logData(): open for append (no
\* open succeeds on an unmounted file system); enviarASupabase follows
\* whatever the outcome
LoopLogHybrid ==
    /\ variant = "hybrid"
    /\ pc = "log"
    /\ \E due \in BOOLEAN, openOk \in BOOLEAN, localTimeOk \in BOOLEAN :
        IF ~due
        THEN /\ pc' = "boton"
             /\ evento' = "-"
             /\ UNCHANGED <<disco, pendiente>>
        ELSE /\ Len(datalog) + Len(FilaHybrid("uptime", lectura)) <= MaxLenHybrid
             /\ IF openOk /\ montado
                THEN /\ existe' = TRUE
                     /\ datalog' = AlAbrirAppend(datalog)
                     /\ pendiente' = FilaHybrid(getTimestamp(timeIsSynced, localTimeOk),
                                                lectura)
                     /\ pc' = "log_println"
                     /\ evento' = "append_open"
                ELSE /\ pc' = "enviar"
                     /\ evento' = "append_fail"
                     /\ UNCHANGED <<disco, pendiente>>
    /\ UNCHANGED <<variant, otros, envio, ram, historia>>

\* dataFile.println(dataString); dataFile.close()
LogPrintln ==
    /\ pc = "log_println"
    /\ datalog' = datalog \o pendiente
    /\ pendiente' = <<>>
    /\ okAppends' = okAppends + 1
    /\ pc' = IF variant = "offline" THEN "boton" ELSE "enviar"
    /\ evento' = "append_ok"
    /\ UNCHANGED <<variant, otros, envio, ram, existe, limpio, roto, idAlBoot,
                   preBorrado>>

\* ---- remote delivery ----------------------------------------------------
HttpCodes == {201, 500, -1}

\* whether /datalog.csv exists after enviarASupabase
ExisteTrasEnvioBorra(ex, conectado, code) ==
    IF conectado /\ code = 201 THEN FALSE ELSE ex

ExisteTrasEnvio(ex, conectado, code) == ex

\* calls of http.POST made by one enviarASupabase
NumPostsReintenta(conectado, code) ==
    IF ~conectado THEN 0 ELSE IF code = 201 THEN 1 ELSE 2

NumPosts(conectado, code) ==
    IF conectado THEN 1 ELSE 0

\* seconds the clock may advance between the getTimestamp() of logData and
\* the getTimestamp() of enviarASupabase
Demoras == 0..1

\* the JSON document: timestamp_dispositivo is a second getTimestamp(), read
\* demora seconds after the one of the row; the values are the globals
RequestBody(synced, localTimeOk, demora, lec) ==
    [ts |-> getTimestamp(synced, localTimeOk), demora |-> demora, lec |-> lec]

\* enviarASupabase: no POST without WiFi (never begun when the mount failed),
\* else one POST whose status is only printed
EnviarASupabase ==
    /\ pc = "enviar"
    /\ \E wifi \in BOOLEAN, code \in HttpCodes, localTimeOk \in BOOLEAN,
          demora \in Demoras :
        LET conectado == wifi /\ montado
        IN  /\ wifiEnvio' = conectado
            /\ posts' = NumPosts(conectado, code)
            /\ ultimoPost' = IF conectado
                             THEN RequestBody(timeIsSynced, localTimeOk, demora,
                                              lectura)
                             ELSE SinPost
            /\ existe' = ExisteTrasEnvio(existe, conectado, code)
            /\ datalog' = IF existe' THEN datalog ELSE <<>>
            /\ evento' = IF ~conectado THEN "sin_wifi"
                         ELSE IF code = 201 THEN "post_201"
                         ELSE "post_error"
    /\ pc' = "boton"
    /\ UNCHANGED <<variant, otros, ram, pendiente, historia>>

\* ---- power ---------------------------------------------------------------
\* the device loses power and RAM; a println under way leaves a proper
\* prefix of its text in the file
PowerLoss ==
    /\ pc # "off"
    /\ pc' = "off"
    /\ montado' = FALSE
    /\ registroID' = 0
    /\ lectura' = Placeholder
    /\ timeIsSynced' = FALSE
    /\ apActivo' = FALSE
    /\ botonPresionado' = FALSE
    /\ pendiente' = <<>>
    /\ idAlBoot' = 0
    /\ posts' = 0
    /\ wifiEnvio' = FALSE
    /\ ultimoPost' = SinPost
    /\ \E k \in 0..Len(pendiente) :
        /\ k < Len(pendiente) \/ pendiente = <<>>
        /\ k > 0 => roto < MaxRotos
        /\ datalog' = datalog \o SubSeq(pendiente, 1, k)
        /\ roto' = IF k > 0 THEN roto + 1 ELSE roto
        /\ limpio' = (limpio /\ k = 0)
    /\ evento' = IF pc \in {"borrar_open", "borrar_println"}
                 THEN "corte_en_borrado" ELSE "corte"
    /\ UNCHANGED <<variant, otros, existe, okAppends, preBorrado>>

Next ==
    \/ SetupOffline
    \/ SetupHybrid
    \/ OnBotonPresionado
    \/ LoopBoton
    \/ LoopHttp
    \/ BorrarOpen
    \/ BorrarPrintln
    \/ LoopLeer
    \/ LoopLogOffline
    \/ LoopLogHybrid
    \/ LogPrintln
    \/ EnviarASupabase
    \/ PowerLoss

Spec == Init /\ [][Next]_vars

TypeOK ==
    /\ variant \in Variants \cup {"cam"}
    /\ pc \in {"off", "boton", "http", "borrar_open", "borrar_println", "leer",
               "log", "log_println", "enviar"}
    /\ registroID \in Nat
    /\ okAppends \in 0..MaxLen
    /\ posts \in 0..1
    /\ wifiEnvio \in BOOLEAN
    /\ medido \in BOOLEAN
    /\ raw \in Nat

\* ---- reading the log back -------------------------------------------------
\* an offline data row: a line whose first field is a non-empty run of digits
EsFila(l) ==
    /\ indexOf(l, ",") > 0
    /\ \A i \in 1..indexOf(l, ",") : IsDigit(l[i])

IdDe(l) == toInt(substring(l, 0, indexOf(l, ",")))

\* the ids of the data rows of the file, in file order
Ids(f) ==
    LET filas == SelectSeq(ReadLines(f), EsFila)
    IN  [i \in 1..Len(filas) |-> IdDe(filas[i])]

\* the lines of the file other than a header line
NoEsHeader(l) == l \o <<"\n">> # HeaderOffline /\ l \o <<"\n">> # HeaderHybrid

NumFilas(f) == Len(SelectSeq(ReadLines(f), NoEsHeader))

\* the rows of the body of GET /csv once split on newlines and the first
\* line dropped
FilasCsv == 
    LET n == NumLines(handleCsv(existe, datalog).body)
    IN  IF n = 0 THEN 0 ELSE n - 1

EnLoop == pc \in {"boton", "http", "borrar_open", "borrar_println", "leer", "log"}

\* ---- claims --------------------------------------------------------------

\* C1: offline, with only successful appends and restarts since the file was
\* (re)created, the ids of the rows are 1, 2, ..., n without gap or repeat,
\* setup leaves registroID at the id of the last row, and the row about to
\* be written carries that id + 1.
C1_IdsConsecutivos ==
    (variant = "offline" /\ limpio) =>
        LET ids == Ids(datalog)
        IN  /\ \A i \in 1..Len(ids) : ids[i] = i
            /\ EnLoop => registroID = Len(ids)
            /\ pc = "log_println" =>
                   /\ registroID = Len(ids) + 1
                   /\ pendiente = FilaOffline(Len(ids) + 1, lectura)

\* a row with the next id was appended after a restart that found rows
C1_Witness ==
    /\ variant = "offline"
    /\ limpio
    /\ evento = "append_ok"
    /\ idAlBoot >= 1
    /\ registroID = idAlBoot + 1
    /\ Ids(datalog) = [i \in 1..registroID |-> i]

\* C2 (as claimed): offline, an append whose open fails leaves registroID
\* as it was, and an append that succeeds after rows were written gives
\* its row the id of the previous row + 1.
C2_FalloNoAvanza ==
    [][/\ (variant = "offline" /\ pc = "log" /\ evento' = "append_fail")
            => registroID' = registroID
       /\ (variant = "offline" /\ pc = "log_println" /\ evento' = "append_ok"
             /\ roto = 0 /\ Len(Ids(datalog)) > 0)
            => Ids(datalog')[Len(Ids(datalog'))]
                 = Ids(datalog)[Len(Ids(datalog))] + 1]_vars

\* C3 (as claimed): hybrid, enviarASupabase makes a POST only in a tick
\* whose row was written to the file.
C3_PostSoloTrasEscritura ==
    [][(variant = "hybrid" /\ pc = "enviar"
          /\ evento' \in {"post_201", "post_error"})
         => evento = "append_ok"]_vars

\* C4: hybrid, a call of enviarASupabase leaves /datalog.csv as it was,
\* whatever its outcome.
C4_EnvioNoTocaArchivo ==
    [][(pc = "enviar" /\ pc' = "boton")
         => (existe' = existe /\ datalog' = datalog)]_vars

\* a 201 has just been received for a tick whose row is in the file
C4_Witness ==
    /\ variant = "hybrid"
    /\ pc = "boton"
    /\ evento = "post_201"
    /\ existe
    /\ NumFilas(datalog) >= 1

\* C5: hybrid, as long as no println was cut by a power loss, the data rows
\* of the file are as many as the appends completed since the file was last
\* removed, whatever the state of the network at each tick.
C5_LogLocalSinRed ==
    (variant = "hybrid" /\ roto = 0) => NumFilas(datalog) = okAppends

\* two ticks have logged locally on a device that never had WiFi
C5_Witness ==
    /\ variant = "hybrid"
    /\ roto = 0
    /\ montado
    /\ ~timeIsSynced
    /\ evento = "sin_wifi"
    /\ okAppends >= 2
    /\ NumFilas(datalog) = okAppends

\* C6 (as claimed): offline, no two data rows of the file carry the same id.
C6_IdsUnicos ==
    variant = "offline" =>
        \A i, j \in 1..Len(Ids(datalog)) :
            i # j => Ids(datalog)[i] # Ids(datalog)[j]

\* C7 (as claimed): a power loss during borrarRegistros leaves the file as
\* it was before the clear or holding exactly the header row.
C7_BorradoAtomico ==
    evento = "corte_en_borrado" =>
        \/ (existe = preBorrado.existe /\ datalog = preBorrado.datalog)
        \/ (existe /\ datalog = Header(variant))

\* C8 (as claimed): once GET /delete has been handled the file holds
\* exactly the header row and, offline, registroID is 0.
C8_TrasDelete ==
    evento = "delete_fin" =>
        /\ existe
        /\ datalog = Header(variant)
        /\ variant = "offline" => registroID = 0

\* C9 (as claimed): the body of GET /csv without its first line has as many
\* rows as appends completed since the last clear (stated for the files in
\* which no println was cut by a power loss).
C9_FilasCsv ==
    roto = 0 => FilasCsv = okAppends

C11_LoopSoloMontado ==
    pc # "off" => montado

\* the forms a timestamp may take according to the description: a date
\* 'YYYY-MM-DD HH:MM:SS' or the seconds since boot
FormasTimestamp == {"fecha", "uptime"}

\* the first field of every data row of the file
Timestamps(f) ==
    {ReadLines(f)[i][1] : i \in {j \in 1..NumLines(f) :
                                    /\ NoEsHeader(ReadLines(f)[j])
                                    /\ Len(ReadLines(f)[j]) >= 1}}

\* C12 (as claimed): every timestamp written by the hybrid sketch is a
\* date of the network clock or the uptime in seconds; when the local time
\* cannot be obtained the uptime is used.
C12_TimestampFechaOUptime ==
    (variant = "hybrid" /\ roto = 0) => Timestamps(datalog) \subseteq FormasTimestamp

\* C22 (as claimed, for the hybrid sketch and a file found present at
\* boot): when setup() completes with the storage mounted, /datalog.csv
\* exists and begins with the header row, also when the file was found
\* empty, as a power loss within a clear leaves it.
C22_HeaderTrasSetup ==
    [][(variant = "hybrid" /\ pc = "off" /\ pc' # "off" /\ montado'
          /\ existe /\ roto = 0)
         => (existe' /\ IsPrefix(HeaderHybrid, datalog'))]_vars

\* ---------------------------------------------------------------------
\* Remote delivery of the hybrid sketch
\* ---------------------------------------------------------------------

EnvioHecho == pc = "boton" /\ evento \in {"sin_wifi", "post_201", "post_error"}

\* C14: hybrid, a log tick makes exactly one POST when WiFi.status() is
\* WL_CONNECTED as enviarASupabase begins and none otherwise; a failed POST
\* is not repeated, neither in the tick nor by a later step.
C14_UnPostPorTick ==
    variant = "hybrid" =>
        IF EnvioHecho
        THEN posts = (IF wifiEnvio THEN 1 ELSE 0)
        ELSE posts = 0

\* a POST has failed and was made once
C14_Witness ==
    /\ variant = "hybrid"
    /\ EnvioHecho
    /\ evento = "post_error"
    /\ wifiEnvio
    /\ posts = 1

\* C15 (as claimed): hybrid, the record POSTed in a tick is the row that the
\* tick appended to the file: same timestamp, same values.
C15_PostIgualAFila ==
    [][(variant = "hybrid" /\ pc = "enviar" /\ evento = "append_ok" /\ posts' = 1)
         => (/\ ultimoPost'.demora = 0
             /\ <<ultimoPost'.ts, ",", ultimoPost'.lec>> = UltimaLinea(datalog))]_vars

\* ---------------------------------------------------------------------
\* The button
\* ---------------------------------------------------------------------

\* C16: a run of the interrupt handler sets botonPresionado and changes
\* nothing else: not apActivo, the sensor values, the timers, the sequence
\* counter, the log file, the position of loop() or the network state.
C16_IsrSoloFlag ==
    [][(~botonPresionado /\ botonPresionado')
         => UNCHANGED <<variant, pc, montado, registroID, lectura, timeIsSynced,
                        apActivo, disco, pendiente, evento, historia, envio,
                        otros>>]_vars

\* the flag is set while the access point is on, a row is in the file and
\* the loop is about to serve a request
C16_Witness ==
    /\ botonPresionado
    /\ apActivo
    /\ pc = "http"
    /\ NumFilas(datalog) >= 1

\* step 1 of loop() statement by statement, with the interrupt able to run
\* between any two statements
MaxFlancos == 4

fueraDeBoton == <<variant, pc, montado, registroID, lectura, timeIsSynced, disco,
                  pendiente, evento, historia, envio, sensor, reloj, cam, vuelta>>

\* a FALLING edge of PIN_BOTON_AP runs onBotonPresionado
Flanco ==
    /\ flancos < MaxFlancos
    /\ flancos' = flancos + 1
    /\ botonPresionado' = TRUE
    /\ apActivo' = ApTrasInterrupcion(apActivo)
    /\ atendido' = FALSE
    /\ UNCHANGED <<fueraDeBoton, pcBoton, toggles>>

\* if (botonPresionado)
BotonCheck ==
    /\ pcBoton = "check"
    /\ pcBoton' = IF botonPresionado THEN "toggle" ELSE "resto"
    /\ UNCHANGED <<fueraDeBoton, botonPresionado, apActivo, flancos, toggles, atendido>>

\* toggleAP()
BotonToggle ==
    /\ pcBoton = "toggle"
    /\ apActivo' = ~apActivo
    /\ toggles' = toggles + 1
    /\ atendido' = TRUE
    /\ pcBoton' = "clear"
    /\ UNCHANGED <<fueraDeBoton, botonPresionado, flancos>>

\* botonPresionado = false
BotonClear ==
    /\ pcBoton = "clear"
    /\ botonPresionado' = FALSE
    /\ pcBoton' = "resto"
    /\ UNCHANGED <<fueraDeBoton, apActivo, flancos, toggles, atendido>>

\* steps 2 to 4 of loop() and the return to its top
BotonResto ==
    /\ pcBoton = "resto"
    /\ pcBoton' = "check"
    /\ UNCHANGED <<fueraDeBoton, botonPresionado, apActivo, flancos, toggles, atendido>>

LoopPaso == BotonCheck \/ BotonToggle \/ BotonClear \/ BotonResto

NextBoton ==
    \/ Flanco
    \/ BotonCheck
    \/ BotonToggle
    \/ BotonClear
    \/ BotonResto

SpecBoton == Init /\ [][NextBoton]_vars

\* the Arduino core calls loop() again and again: the loop always takes its
\* next step
SpecBotonFair == SpecBoton /\ WF_vars(LoopPaso)

\* C17 (as claimed): every run of the interrupt handler is eventually
\* followed by a call of toggleAP.
C17_FlagLlevaAToggle ==
    (botonPresionado /\ ~atendido) ~> atendido

\* C18 (as claimed): once the loop has handled the button and the flag is
\* clear, toggleAP has been called once per edge.
C18_UnTogglePorFlanco ==
    (pcBoton \in {"check", "resto"} /\ ~botonPresionado) => toggles = flancos

\* ---------------------------------------------------------------------
\* The timers of the offline loop()
\* ---------------------------------------------------------------------

\* delay(30000) of setup()
Calentamiento == 30000

\* currentMillis - ultimaLecturaMillis >= 1000
IntervaloLectura == 1000

\* currentMillis - ultimoLogMillis >= 5000
IntervaloLog == 5000

\* the period of the file header and of the comment of step 4
UnaHora == 3600000

\* hybrid: currentMillis - ultimaLecturaMillis >= 1500
IntervaloLecturaHybrid == 1500

\* hybrid: currentMillis - ultimoLogMillis >= 3600000
IntervaloLogHybrid == 3600000

\* largest value of millis() explored for the hybrid sketch: the first hour
MaxMillisHybrid == 3640000

\* largest value of millis() explored, far below the wrap of the counter
MaxMillis == 42000

\* milliseconds that a pass of loop() may take
PasosLoop == {500, 2000, 6000}

\* currentMillis - inicio for unsigned long operands that have not wrapped
Transcurrido(currentMillis, inicio) == currentMillis - inicio

fueraDeTimers == <<variant, pc, montado, registroID, timeIsSynced, apActivo,
                   botonPresionado, disco, pendiente, evento, historia, envio,
                   sensor, pulsador, cam, vuelta>>

\* the periods of steps 3 and 4 of loop() in each sketch
IntervaloLecturaDe(v) ==
    IF v = "offline" THEN IntervaloLectura ELSE IntervaloLecturaHybrid

IntervaloLogDe(v) ==
    IF v = "offline" THEN IntervaloLog ELSE IntervaloLogHybrid

MaxMillisDe(v) ==
    IF v = "offline" THEN MaxMillis ELSE MaxMillisHybrid

\* the values that a sensor read may leave in temperatura, humedad, gas_ppm
MuestrasLoop == {"m1", "m2"}

\* the values that the log function writes when it is called in a pass of
\* loop(): antes are the globals at the top of the pass, despues the
\* globals once the read of the pass, if any, has run
ValorAlLogAntes(antes, despues) == antes

ValorAlLog(antes, despues) == despues

InitTimers ==
    /\ InitRegistro
    /\ variant = "offline"
    /\ InitOtros

\* the end of setup(): the warm-up delay, then both timers take millis();
\* the hybrid setup() returns before that when the mount fails
TimerSetup ==
    /\ ~arrancado
    /\ arrancado' = TRUE
    /\ \E mountOk \in BOOLEAN :
        IF mountOk \/ variant = "offline"
        THEN /\ millisAhora' = millisAhora + Calentamiento
             /\ ultimaLecturaMillis' = millisAhora'
             /\ ultimoLogMillis' = millisAhora'
             /\ tLogAnterior' = millisAhora'
        ELSE UNCHANGED <<millisAhora, ultimaLecturaMillis, ultimoLogMillis,
                         tLogAnterior>>
    /\ UNCHANGED <<fueraDeTimers, tLog, lectura, registrado>>

\* one pass of loop() that begins at currentMillis and takes paso ms: steps
\* 3 and 4 compare the timers, restart those that are due and call
\* leerSensores / logDataToSPIFFS
TimerLoop ==
    /\ arrancado
    /\ \E paso \in PasosLoop :
        /\ millisAhora + paso <= MaxMillisDe(variant)
        /\ millisAhora' = millisAhora + paso
    /\ LET currentMillis == millisAhora
           leer == Transcurrido(currentMillis, ultimaLecturaMillis)
                       >= IntervaloLecturaDe(variant)
           log == Transcurrido(currentMillis, ultimoLogMillis)
                       >= IntervaloLogDe(variant)
       IN  /\ ultimaLecturaMillis' = IF leer THEN currentMillis ELSE ultimaLecturaMillis
           /\ \E muestra \in MuestrasLoop :
                lectura' = IF leer THEN muestra ELSE lectura
           /\ ultimoLogMillis' = IF log THEN currentMillis ELSE ultimoLogMillis
           /\ tLog' = IF log THEN currentMillis ELSE tLog
           /\ tLogAnterior' = IF log /\ tLog # -1 THEN tLog ELSE tLogAnterior
           /\ llamadasLog' = IF log THEN llamadasLog + 1 ELSE llamadasLog
           /\ valorLog' = IF log THEN ValorAlLog(lectura, lectura') ELSE valorLog
    /\ UNCHANGED <<fueraDeTimers, arrancado>>

NextTimers ==
    \/ TimerSetup
    \/ TimerLoop

SpecTimers == InitTimers /\ [][NextTimers]_vars

\* C19 (as claimed): offline, a call of logDataToSPIFFS comes at least
\* 3600000 ms after the call before it, and the first call at least
\* 3600000 ms after the end of setup().
C19_UnRegistroPorHora ==
    tLog # -1 => Transcurrido(tLog, tLogAnterior) >= UnaHora

\* ---------------------------------------------------------------------
\* The state machine of the ESP32-CAM sketch
\* ---------------------------------------------------------------------

readingDuration == 120000
serverDuration == 180000
sleepDuration == 300000

\* delay(60000) of setup()
CalentamientoCam == 60000

\* delay(5000) at the end of a pass in STATE_READING
RetardoLectura == 5000

\* half period of the blink in STATE_SLEEPING: (currentTime / 500) % 2
MedioParpadeo == 500

\* largest value of millis() explored: one cycle and the start of the next
MaxMillisCam == 800000

\* milliseconds between the starts of two passes of loop() outside
\* STATE_READING
PasosCam == {500, 30000, 90000}

Duracion(estado) ==
    CASE estado = "STATE_READING" -> readingDuration
      [] estado = "STATE_WEBSERVER" -> serverDuration
      [] estado = "STATE_SLEEPING" -> sleepDuration

\* the state assigned by the case of loop() that leaves estado
SiguienteSinReposo(estado) ==
    CASE estado = "STATE_READING" -> "STATE_WEBSERVER"
      [] estado = "STATE_WEBSERVER" -> "STATE_READING"
      [] estado = "STATE_SLEEPING" -> "STATE_READING"

Siguiente(estado) ==
    CASE estado = "STATE_READING" -> "STATE_WEBSERVER"
      [] estado = "STATE_WEBSERVER" -> "STATE_SLEEPING"
      [] estado = "STATE_SLEEPING" -> "STATE_READING"

fueraDeCam == <<variant, pc, montado, registroID, timeIsSynced, apActivo,
                botonPresionado, disco, pendiente, evento, historia, envio,
                sensor, pulsador, cronos, vuelta>>

\* server.on("/", ...), server.on("/csv", ...), server.on("/delete", ...);
\* "-" stands for a pass in which no client is waiting
RequestsCam == {"-", "/", "/csv", "/delete"}

\* whether the pass of STATE_READING calls logDataToSD, given whether the
\* reading time is over
RegistraEnPaseSiempre(debido) == TRUE

RegistraEnPase(debido) == debido

\* the access point after the transition out of STATE_WEBSERVER:
\* server.stop(); WiFi.mode(WIFI_OFF)
ApAlSalirSigue(ap) == ap

ApAlSalir(ap) == FALSE

InitCamSketch ==
    /\ variant = "cam"
    /\ InitGlobales
    /\ InitOtros

\* setup(): a failed SD mount restarts the board; else the warm-up with the
\* LED lit, then the state machine starts in STATE_READING with WiFi off
CamSetup ==
    /\ ~arrancado
    /\ \E mountOk \in BOOLEAN :
        IF mountOk
        THEN /\ arrancado' = TRUE
             /\ millisAhora' = millisAhora + CalentamientoCam
             /\ led' = "HIGH"
             /\ currentState' = "STATE_READING"
             /\ stateStartTime' = millisAhora'
             /\ wifiAP' = FALSE
             /\ UNCHANGED <<filasSD, peticion>>
        ELSE /\ millisAhora' = 0
             /\ UNCHANGED <<arrancado, cam>>
    /\ UNCHANGED <<fueraDeCam, lectura, registrado>>

\* a pass of loop() in STATE_READING: readAllSensors, then when the reading
\* time is over logDataToSD (its open may fail) and the transition, then
\* delay(5000)
CamReading ==
    /\ arrancado
    /\ currentState = "STATE_READING"
    /\ millisAhora + RetardoLectura <= MaxMillisCam
    /\ \E muestra \in MuestrasLoop : lectura' = muestra
    /\ LET currentTime == millisAhora
           debido == Transcurrido(currentTime, stateStartTime) >= readingDuration
       IN  /\ led' = "LOW"
           /\ IF RegistraEnPase(debido)
              THEN /\ llamadasLog' = llamadasLog + 1
                   /\ valorLog' = ValorAlLog(lectura, lectura')
                   /\ \E openOk \in BOOLEAN :
                        filasSD' = IF openOk THEN filasSD + 1 ELSE filasSD
              ELSE UNCHANGED <<registrado, filasSD>>
           /\ IF debido
              THEN /\ currentState' = Siguiente(currentState)
                   /\ stateStartTime' = currentTime
                   /\ wifiAP' = TRUE
              ELSE UNCHANGED <<currentState, stateStartTime, wifiAP>>
    /\ peticion' = "-"
    /\ millisAhora' = millisAhora + RetardoLectura
    /\ UNCHANGED <<fueraDeCam, arrancado>>

\* a pass of loop() in STATE_WEBSERVER: server.handleClient() serves the
\* request of a waiting client (GET /delete runs deleteLogs), then the
\* transition when the server time is over
CamWebserver ==
    /\ arrancado
    /\ currentState = "STATE_WEBSERVER"
    /\ \E req \in RequestsCam :
        /\ peticion' = req
        /\ filasSD' = IF req = "/delete" THEN 0 ELSE filasSD
    /\ LET currentTime == millisAhora
       IN  /\ led' = "HIGH"
           /\ IF Transcurrido(currentTime, stateStartTime) >= serverDuration
              THEN /\ currentState' = Siguiente(currentState)
                   /\ stateStartTime' = currentTime
                   /\ wifiAP' = ApAlSalir(wifiAP)
              ELSE UNCHANGED <<currentState, stateStartTime, wifiAP>>
    /\ \E paso \in PasosCam :
        /\ millisAhora + paso <= MaxMillisCam
        /\ millisAhora' = millisAhora + paso
    /\ UNCHANGED <<fueraDeCam, arrancado, lectura, registrado>>

\* a pass of loop() in STATE_SLEEPING
CamSleeping ==
    /\ arrancado
    /\ currentState = "STATE_SLEEPING"
    /\ LET currentTime == millisAhora
       IN  /\ led' = IF (currentTime \div MedioParpadeo) % 2 = 0 THEN "LOW" ELSE "HIGH"
           /\ IF Transcurrido(currentTime, stateStartTime) >= sleepDuration
              THEN /\ currentState' = Siguiente(currentState)
                   /\ stateStartTime' = currentTime
              ELSE UNCHANGED <<currentState, stateStartTime>>
    /\ peticion' = "-"
    /\ \E paso \in PasosCam :
        /\ millisAhora + paso <= MaxMillisCam
        /\ millisAhora' = millisAhora + paso
    /\ UNCHANGED <<fueraDeCam, arrancado, wifiAP, filasSD, lectura, registrado>>

NextCam ==
    \/ CamSetup
    \/ CamReading
    \/ CamWebserver
    \/ CamSleeping

SpecCam == InitCamSketch /\ [][NextCam]_vars

\* C20: ESP32-CAM, the machine starts in STATE_READING and changes state
\* only READING -> WEBSERVER -> SLEEPING -> READING; it leaves a state only
\* when at least 120000 ms (reading), 180000 ms (server) or 300000 ms
\* (sleep) have passed since stateStartTime, and every change of state sets
\* stateStartTime to the millis() read at the top of that pass of loop().
C20_CicloDeEstados ==
    [][/\ (~arrancado /\ arrancado') => currentState' = "STATE_READING"
       /\ currentState' # currentState =>
            /\ <<currentState, currentState'>> \in
                    {<<"STATE_READING", "STATE_WEBSERVER">>,
                     <<"STATE_WEBSERVER", "STATE_SLEEPING">>,
                     <<"STATE_SLEEPING", "STATE_READING">>}
            /\ millisAhora - stateStartTime >=
                    (IF currentState = "STATE_READING" THEN 120000
                     ELSE IF currentState = "STATE_WEBSERVER" THEN 180000
                     ELSE 300000)
            /\ stateStartTime' = millisAhora]_vars

\* a whole cycle has been made: the machine reads again
C20_Witness ==
    /\ arrancado
    /\ currentState = "STATE_READING"
    /\ stateStartTime >= 660000

\* C21 (as claimed): ESP32-CAM, whenever the machine is in STATE_READING
\* the LED is lit (pin LOW) and whenever it is in STATE_WEBSERVER the LED is
\* dark (pin HIGH), the time right after a change of state included.
C21_LedSegunEstado ==
    arrancado =>
        /\ currentState = "STATE_READING" => led = "LOW"
        /\ currentState = "STATE_WEBSERVER" => led = "HIGH"

\* C24: ESP32-CAM, once setup() is over the access point and the server
\* are on exactly when the machine is in STATE_WEBSERVER: they change only
\* together with the state, and a request is served only by a pass of
\* loop() that began in STATE_WEBSERVER with the access point on.
C24_ApSoloEnServidor ==
    [][/\ arrancado' => (wifiAP' <=> currentState' = "STATE_WEBSERVER")
       /\ wifiAP' # wifiAP => currentState' # currentState
       /\ peticion' # "-" => (currentState = "STATE_WEBSERVER" /\ wifiAP)]_vars

\* the pass that served GET /delete has also left STATE_WEBSERVER
C24_Witness ==
    /\ currentState = "STATE_SLEEPING"
    /\ peticion = "/delete"
    /\ ~wifiAP
    /\ llamadasLog = 1

\* C25: ESP32-CAM, logDataToSD is called once at each transition
\* STATE_READING -> STATE_WEBSERVER and at no other step, and a row is
\* appended only there, one at most: none in STATE_WEBSERVER or
\* STATE_SLEEPING, none in a pass that stays in STATE_READING.
C25_UnLogPorCiclo ==
    [][LET entra == currentState = "STATE_READING"
                        /\ currentState' = "STATE_WEBSERVER"
       IN  /\ llamadasLog' = (IF entra THEN llamadasLog + 1 ELSE llamadasLog)
           /\ filasSD' > filasSD => (entra /\ filasSD' = filasSD + 1)]_vars

\* the second cycle has logged its row after the first
C25_Witness ==
    /\ llamadasLog = 2
    /\ filasSD = 2
    /\ currentState = "STATE_WEBSERVER"

\* ---------------------------------------------------------------------
\* Reads and log calls of the three sketches
\* ---------------------------------------------------------------------

Sketches == Variants \cup {"cam"}

InitMuestras ==
    /\ variant \in Sketches
    /\ InitGlobales
    /\ InitOtros

\* setup() and loop() of the sketch that was flashed
NextMuestras ==
    \/ (variant \in Variants /\ NextTimers)
    \/ (variant = "cam" /\ NextCam)

SpecMuestras == InitMuestras /\ [][NextMuestras]_vars

\* C23: in each sketch a call of the log function logs the values left by
\* the most recent sensor read, and such a read has been made since boot:
\* the placeholder values 0.0 are never logged.
C23_SiempreMuestraReal ==
    [][llamadasLog' # llamadasLog
         => (/\ lectura' \in MuestrasLoop
             /\ valorLog' = lectura'
             /\ valorLog' # Placeholder)]_vars

\* the hybrid sketch has made its first hourly log
C23_Witness ==
    /\ variant = "hybrid"
    /\ llamadasLog = 1
    /\ valorLog = "m2"
    /\ tLog >= 3600000

\* ---------------------------------------------------------------------
\* The timers across the wrap of millis()
\* ---------------------------------------------------------------------

\* an unsigned long of the ESP32 is 32 bits wide; it is kept as two halves
\* of 16 bits, <<high, low>>
Base == 2^16

\* the unsigned long that holds n, for 0 <= n < 2^31
ToU32(n) == <<n \div Base, n % Base>>

\* a + n on unsigned long, n an integer 0 <= n < 2^31: the carry out of the
\* high half is lost
Suma32(a, n) ==
    LET lo == a[2] + (n % Base)
        hi == a[1] + (n \div Base) + (lo \div Base)
    IN  <<hi % Base, lo % Base>>

\* a - b on unsigned long: the borrow out of the high half is lost
Resta32(a, b) ==
    LET lo == a[2] - b[2]
        hi == a[1] - b[1] - (IF lo < 0 THEN 1 ELSE 0)
    IN  <<hi % Base, lo % Base>>

\* a >= b on unsigned long
MayorIgual32(a, b) == a[1] > b[1] \/ (a[1] = b[1] /\ a[2] >= b[2])

\* the test of a timer: currentMillis - last >= period
VenceSumando(currentMillis, last, period) ==
    MayorIgual32(currentMillis, Suma32(last, period))

Vence(currentMillis, last, period) ==
    MayorIgual32(Resta32(currentMillis, last), ToU32(period))

\* the periods that the three sketches test
PeriodosDe(v) ==
    CASE v = "offline" -> {IntervaloLectura, IntervaloLog}
      [] v = "hybrid" -> {IntervaloLecturaHybrid, IntervaloLogHybrid}
      [] v = "cam" -> {readingDuration, serverDuration, sleepDuration}

\* real time explored, in periods of the timer
MaxPeriodos == 3

\* ms before the wrap at which the timer was last restarted
AntesDeVuelta(per) == {1, per \div 2, per, 2 * per}

\* ms between the tops of two passes of loop()
PasosVuelta(per) == {per \div 4, (per \div 2) + 1, per - 1}

fueraDeVuelta == <<registro, sensor, pulsador, reloj, cam>>

\* the timer has just been restarted, shortly before millis() wraps
InitWrap ==
    /\ variant \in Sketches
    /\ InitGlobales
    /\ InitSensor
    /\ InitPulsador
    /\ InitReloj
    /\ InitCam
    /\ periodo \in PeriodosDe(variant)
    /\ ultimo32 \in {Resta32(<<0, 0>>, ToU32(k)) : k \in AntesDeVuelta(periodo)}
    /\ ahora32 = ultimo32
    /\ realDesde = 0
    /\ total = 0
    /\ disparo = FALSE

\* a pass of loop() that begins paso ms after the one before: the timer is
\* tested and, when due, restarted at currentMillis
PaseVuelta ==
    /\ \E paso \in PasosVuelta(periodo) :
        /\ total + paso <= MaxPeriodos * periodo
        /\ total' = total + paso
        /\ ahora32' = Suma32(ahora32, paso)
        /\ LET currentMillis == ahora32'
               vence == Vence(currentMillis, ultimo32, periodo)
           IN  /\ disparo' = vence
               /\ ultimo32' = IF vence THEN currentMillis ELSE ultimo32
               /\ realDesde' = IF vence THEN 0 ELSE realDesde + paso
    /\ UNCHANGED <<fueraDeVuelta, periodo>>

NextWrap == PaseVuelta

SpecWrap == InitWrap /\ [][NextWrap]_vars

\* C26: the test currentMillis - last >= period on unsigned 32-bit values
\* is true at a pass of loop() exactly when at least period ms have really
\* elapsed since the timer was restarted, also when millis() has wrapped in
\* between: no tick fires early and none is held back.
C26_TimersTrasVuelta ==
    [][LET pasado == total' - total
       IN  disparo' <=> (realDesde + pasado >= periodo)]_vars

\* the hourly log timer has fired with millis() wrapped since its restart
C26_Witness ==
    /\ periodo = IntervaloLogHybrid
    /\ disparo
    /\ ahora32[1] = 0
    /\ total >= IntervaloLogHybrid
    /\ ultimo32 = ahora32

\* ---------------------------------------------------------------------
\* The humidity conversion of leerSensores / leerHumedad
\* ---------------------------------------------------------------------

\* largest value of the 12-bit analogRead
ADCMax == 4095

Abs(a) == IF a < 0 THEN -a ELSE a

\* the quotient of two C integers: truncated towards zero
DivC(a, b) ==
    IF (a < 0) = (b < 0) THEN Abs(a) \div Abs(b) ELSE -(Abs(a) \div Abs(b))

\* Arduino map(): integer re-scaling of x from in_min..in_max to
\* out_min..out_max
map(x, in_min, in_max, out_min, out_max) ==
    DivC((x - in_min) * (out_max - out_min), in_max - in_min) + out_min

constrainSinTope(x, lo, hi) ==
    IF x < lo THEN lo ELSE x

\* Arduino constrain(): x clamped to lo..hi
constrain(x, lo, hi) ==
    IF x < lo THEN lo ELSE IF x > hi THEN hi ELSE x

\* humedad = map(analogRead(PIN_HUMEDAD), 3500, 800, 0, 100);
\* humedad = constrain(humedad, 0, 100);
leerHumedad(valorCrudo) ==
    constrain(map(valorCrudo, 3500, 800, 0, 100), 0, 100)

\* the pin delivers any 12-bit value
InitHumedad ==
    /\ InitRegistro
    /\ InitPulsador
    /\ InitReloj
    /\ InitCam
    /\ InitVuelta
    /\ raw \in 0..ADCMax
    /\ humedad = 0
    /\ medido = FALSE

LeerSensores ==
    /\ ~medido
    /\ humedad' = leerHumedad(raw)
    /\ medido' = TRUE
    /\ UNCHANGED <<registro, pulsador, reloj, cam, vuelta, raw>>

NextHumedad == LeerSensores

SpecHumedad == InitHumedad /\ [][NextHumedad]_vars

\* C13: for every raw value 0..4095 the stored humidity is within 0..100,
\* is exactly 100 for a raw value below 800 and exactly 0 for a raw value
\* of 3500 or more.
C13_HumedadEnRango ==
    medido =>
        /\ humedad \in 0..100
        /\ raw < 800 => humedad = 100
        /\ raw >= 3500 => humedad = 0

\* a read in the calibrated span gives a value strictly between the ends
C13_Witness ==
    /\ medido
    /\ raw = 2150
    /\ humedad = 50

====
